---------------------------- MODULE Spec2Model ----------------------------
(***************************************************************************)
(* Option flight envelope: path generators (dynamics.py), envelope         *)
(* geometry and regime classifier (envelope.py), per-step telemetry        *)
(* (telemetry.py), the JSONL logger (io.py) and the driver that runs them  *)
(* (scenario_runner.py).                                                   *)
(*                                                                         *)
(* Python floats are modelled as exact decimal numbers m * 10^e (records   *)
(* [m, e], kept normalised), quotients as exact fractions of two such      *)
(* numbers, so that the constant 1e-9 and denominators below it are        *)
(* represented without scaling anything away.  TLC stops with an overflow  *)
(* error if a mantissa leaves the 32-bit range: arithmetic is exact or it  *)
(* fails, never approximate.                                               *)
(***************************************************************************)
EXTENDS Integers, Sequences, FiniteSets, TLC

VARIABLES
    \* ---- FlightEnvelope / TelemetryEngine
    config,     \* the EnvelopeConfig of the envelope (atr, flip, put_wall, call_wall)
    op,         \* the operation called last
    inp,        \* its arguments
    state,      \* the dict returned by the last evaluate_state
    regime,     \* the value returned by the last get_regime
    rec,        \* the record returned by the last compute_step
    \* ---- PathGenerator
    pgen,       \* the PathGenerator instance (start_spot, atr, steps)
    pc,         \* position of the running generator call
    call,       \* the running call: its name and arguments
    cur,        \* the local spot / iv carried by the loop
    pre,        \* generate_vol_path: iv after the shock branch, before the drift
    i,          \* the loop counter
    path,       \* the list under construction / returned
    draws,      \* the values random.normalvariate has returned to this call
    \* ---- TelemetryLogger
    log_data,   \* the records accumulated by the driver
    written,    \* the data argument of the last save_log
    file,       \* the content of the file at filepath
    loaded,     \* the list returned by the last load_log
    \* ---- ScenarioRunner
    rpc,        \* position of the running run_scenario call
    scen,       \* its arguments (path_type, steps) and its loop counter i
    spots,      \* the price sequence it generated
    ivs,        \* the IV sequence it generated
    hvs,        \* the HV sequence it built
    computed,   \* the timestamps compute_step has been called with, in call order
    returned,   \* the list run_scenario returned
    mc          \* the running run_monte_carlo call: n_runs, steps, i, results

envVars  == <<config, op, inp, state, regime, rec>>
pathVars == <<pgen, pc, call, cur, pre, i, path, draws>>
logVars  == <<log_data, written, file, loaded>>
runVars  == <<rpc, scen, spots, ivs, hvs, computed, returned, mc>>
vars     == <<config, op, inp, state, regime, rec,
              pgen, pc, call, cur, pre, i, path, draws,
              log_data, written, file, loaded,
              rpc, scen, spots, ivs, hvs, computed, returned, mc>>

---------------------------------------------------------------------------
(* Exact decimal arithmetic standing for Python's float operations.        *)

Sign(n) == IF n > 0 THEN 1 ELSE IF n < 0 THEN -1 ELSE 0

IAbs(n) == IF n < 0 THEN -n ELSE n

Min(a, b) == IF a <= b THEN a ELSE b

RECURSIVE Pow10(_)
Pow10(k) == IF k <= 0 THEN 1 ELSE 10 * Pow10(k - 1)

RECURSIVE Digits(_)
Digits(n) == IF n < 10 THEN 1 ELSE 1 + Digits(n \div 10)

RECURSIVE Norm(_, _)
Norm(m, e) ==
    IF m = 0 THEN [m |-> 0, e |-> 0]
    ELSE IF m % 10 = 0 THEN Norm(m \div 10, e + 1)
    ELSE [m |-> m, e |-> e]

\* The float literal m * 10^e
D(m, e) == Norm(m, e)

Zero == D(0, 0)

One == D(1, 0)

DNeg(a) == [m |-> -a.m, e |-> a.e]

DAbs(a) == [m |-> IAbs(a.m), e |-> a.e]

DAdd(a, b) ==
    IF a.m = 0 THEN b
    ELSE IF b.m = 0 THEN a
    ELSE LET e == Min(a.e, b.e)
         IN  Norm(a.m * Pow10(a.e - e) + b.m * Pow10(b.e - e), e)

DSub(a, b) == DAdd(a, DNeg(b))

DMul(a, b) == Norm(a.m * b.m, a.e + b.e)

\* a < b for a, b > 0: by order of magnitude first, so that numbers of very
\* different scale (2.8 and 1e-9) are compared without aligning them
MagLess(a, b) ==
    LET oa == Digits(a.m) + a.e
        ob == Digits(b.m) + b.e
        e  == Min(a.e, b.e)
    IN  IF oa # ob THEN oa < ob
        ELSE a.m * Pow10(a.e - e) < b.m * Pow10(b.e - e)

DLt(a, b) ==
    LET sa == Sign(a.m)
        sb == Sign(b.m)
    IN  IF sa # sb THEN sa < sb
        ELSE IF sa = 0 THEN FALSE
        ELSE IF sa > 0 THEN MagLess(a, b)
        ELSE MagLess(DNeg(b), DNeg(a))

DGt(a, b) == DLt(b, a)

DLe(a, b) == ~DLt(b, a)

DGe(a, b) == ~DLt(a, b)

DMax(a, b) == IF DLt(a, b) THEN b ELSE a

\* The float n / d, d > 0, kept as an exact fraction
QDiv(n, d) == [n |-> n, d |-> d]

Q(a) == QDiv(a, One)

QEq(p, q) == DMul(p.n, q.d) = DMul(q.n, p.d)

\* q > t and q < t for a fraction q (q.d > 0) and a decimal t
QGt(q, t) == DLt(DMul(t, q.d), q.n)

QLt(q, t) == DLt(q.n, DMul(t, q.d))

\* a / b rounded to the nearest integer, a tie to the even one (a >= 0, b > 0)
RoundHalfEven(a, b) ==
    LET f == a \div b
        r == a % b
    IN  IF 2 * r < b THEN f
        ELSE IF 2 * r > b THEN f + 1
        ELSE IF f % 2 = 0 THEN f ELSE f + 1

\* A value this representation cannot hold: evaluating it stops TLC
Unrepresentable == CHOOSE x \in {} : TRUE

\* round(q, k): q to k decimal places
RoundQ(q, k) ==
    LET sgn == Sign(q.n.m)
        nm  == IAbs(q.n.m)
        dm  == q.d.m
        s   == q.n.e - q.d.e + k
        j   == 9 - Digits(nm)
    IN  IF nm = 0 THEN Zero
        ELSE IF s >= 0
        THEN IF Digits(nm) + s <= 9
             THEN D(sgn * RoundHalfEven(nm * Pow10(s), dm), -k)
             ELSE \* a multiple of 10^-k already: nothing to round
                  IF (nm * Pow10(j)) % dm = 0
                  THEN D(sgn * ((nm * Pow10(j)) \div dm), s - j - k)
                  ELSE Unrepresentable
        ELSE IF Digits(dm) - s <= 9
             THEN D(sgn * RoundHalfEven(nm, dm * Pow10(-s)), -k)
             ELSE IF Digits(nm) + 1 < Digits(dm) - s THEN Zero
                  ELSE Unrepresentable

\* round(a, k) of a float a
Round(a, k) == RoundQ(Q(a), k)

---------------------------------------------------------------------------
(* envelope.py                                                             *)

\* the literal 1e-9 of the three guarded divisions
Eps == D(1, -9)

OverspeedAt == D(30, -1)

\* the TAXI threshold 0.3 taken for the stall threshold
StallAt_Taxi == D(3, -1)

StallAt == D(2, -1)

RuptureY == D(25, -1)

RuptureX == D(45, -1)

TaxiX == D(3, -1)

ManeuverY == D(15, -1)

ManeuverX == D(25, -1)

\* the guard written as max(d, 1e-9)
SafeDen_Max(d) == DMax(d, Eps)

\* (d if d > 0 else 1e-9)
SafeDen(d) == IF DGt(d, Zero) THEN d ELSE Eps

\* the walls counted as outside
IsBreached_Inclusive(cfg, spot) == DGe(spot, cfg.call_wall) \/ DLe(spot, cfg.put_wall)

IsBreached(cfg, spot) == DGt(spot, cfg.call_wall) \/ DLt(spot, cfg.put_wall)

evaluate_state(cfg, spot, iv, hv) ==
    LET airspeed    == QDiv(DAbs(DSub(spot, cfg.flip)), SafeDen(cfg.atr))
        load_factor == QDiv(iv, SafeDen(hv))
        upper       == DGe(spot, cfg.flip)
        wall_dist   == IF upper THEN DAbs(DSub(cfg.call_wall, spot))
                                ELSE DAbs(DSub(cfg.put_wall, spot))
        max_dist    == IF upper THEN DAbs(DSub(cfg.call_wall, cfg.flip))
                                ELSE DAbs(DSub(cfg.put_wall, cfg.flip))
        wall_proximity == QDiv(wall_dist, SafeDen(max_dist))
    IN  [x |-> airspeed,
         y |-> load_factor,
         z |-> wall_proximity,
         is_breached  |-> IsBreached(cfg, spot),
         is_overspeed |-> QGt(airspeed, OverspeedAt),
         is_stall     |-> QLt(airspeed, StallAt)]

\* the MANEUVER clause tried before the TAXI clause
get_regime_ManeuverFirst(x, y) ==
    IF QGt(y, RuptureY) \/ QGt(x, RuptureX) THEN "RUPTURE"
    ELSE IF QGt(y, ManeuverY) \/ QGt(x, ManeuverX) THEN "MANEUVER"
    ELSE IF QLt(x, TaxiX) THEN "TAXI"
    ELSE "CRUISE"

\* the TAXI clause left out
get_regime_NoTaxi(x, y) ==
    IF QGt(y, RuptureY) \/ QGt(x, RuptureX) THEN "RUPTURE"
    ELSE IF QGt(y, ManeuverY) \/ QGt(x, ManeuverX) THEN "MANEUVER"
    ELSE "CRUISE"

get_regime(x, y) ==
    IF QGt(y, RuptureY) \/ QGt(x, RuptureX) THEN "RUPTURE"
    ELSE IF QLt(x, TaxiX) THEN "TAXI"
    ELSE IF QGt(y, ManeuverY) \/ QGt(x, ManeuverX) THEN "MANEUVER"
    ELSE "CRUISE"

---------------------------------------------------------------------------
(* telemetry.py                                                            *)

\* the STALL branch left out
BuildFlags_DropStall(st) ==
    (IF st.is_breached THEN <<"BREACH">> ELSE <<>>)
    \o (IF st.is_overspeed THEN <<"OVERSPEED">> ELSE <<>>)

\* the STALL branch moved to the front
BuildFlags_StallFirst(st) ==
    (IF st.is_stall THEN <<"STALL">> ELSE <<>>)
    \o (IF st.is_breached THEN <<"BREACH">> ELSE <<>>)
    \o (IF st.is_overspeed THEN <<"OVERSPEED">> ELSE <<>>)

BuildFlags(st) ==
    (IF st.is_breached THEN <<"BREACH">> ELSE <<>>)
    \o (IF st.is_overspeed THEN <<"OVERSPEED">> ELSE <<>>)
    \o (IF st.is_stall THEN <<"STALL">> ELSE <<>>)

compute_step(cfg, spot, iv, hv, timestamp) ==
    LET st == evaluate_state(cfg, spot, iv, hv)
    IN  [timestamp |-> timestamp,
         spot   |-> Round(spot, 2),
         iv     |-> Round(iv, 4),
         hv     |-> Round(hv, 4),
         x      |-> RoundQ(st.x, 3),
         y      |-> RoundQ(st.y, 3),
         z      |-> RoundQ(st.z, 3),
         regime |-> get_regime(st.x, st.y),
         flags  |-> BuildFlags(st)]

---------------------------------------------------------------------------
(* Inputs of the envelope and telemetry operations                         *)

MaxTimestamp == 1

None == <<>>

Cfg(atr, flip, put_wall, call_wall) ==
    [atr |-> atr, flip |-> flip, put_wall |-> put_wall, call_wall |-> call_wall]

\* main(): atr=2.8, flip=692.5, put_wall=680.0, call_wall=700.0
MainConfig == Cfg(D(28, -1), D(6925, -1), D(680, 0), D(700, 0))

\* volatility units around the guard: normal, zero, negative, below 1e-9, 1e-9
AtrValues == {D(28, -1), Zero, D(-28, -1), D(5, -10), Eps}

\* a geometry nine orders of magnitude smaller: walls 5e-10 from the pivot 0
NanoConfig == Cfg(D(5, -10), Zero, D(-5, -10), D(5, -10))

Configs ==
    {Cfg(a, MainConfig.flip, MainConfig.put_wall, MainConfig.call_wall) : a \in AtrValues}
    \cup {Cfg(D(28, -1), D(700, 0), D(680, 0), D(700, 0)),   \* pivot on the upper wall
          Cfg(D(28, -1), D(705, 0), D(680, 0), D(700, 0)),   \* pivot outside the walls
          Cfg(D(28, -1), D(6925, -1), D(700, 0), D(680, 0)), \* walls crossed
          NanoConfig}

MainSpots ==
    {D(6925, -1), D(6920, -1), D(693059, -3), D(6932, -1), D(6933399, -4),
     D(6940, -1), D(680, 0), D(6799, -1), D(700, 0), D(7009, -1), D(700901, -3),
     D(701, 0), D(705, 0), D(7052, -1), D(750, 0)}

NanoSpots == {Zero, D(1, -9), D(-1, -9), D(25, -11), D(5, -9)}

SpotsFor(cfg) == IF cfg = NanoConfig THEN NanoSpots ELSE MainSpots

IVs == {D(15, -2), D(2, -1), D(3, -1), D(31, -2), Zero}

HVs == {D(12, -2), Zero, D(-12, -2), D(5, -10), Eps}

Timestamps == 0 .. MaxTimestamp

RegimeXs ==
    {Q(D(m, -2)) : m \in {0, 20, 29, 30, 31, 250, 251, 300, 450, 451, 500}}

RegimeYs ==
    {Q(D(m, -2)) : m \in {-100, 0, 125, 150, 151, 250, 251, 500}}

---------------------------------------------------------------------------
(* FlightEnvelope and TelemetryEngine as operations                        *)

PathIdle ==
    /\ pgen = None /\ pc = "idle" /\ call = None /\ cur = None
    /\ pre = None /\ i = 0 /\ path = <<>> /\ draws = <<>>

LogIdle ==
    /\ log_data = <<>> /\ written = None /\ file = None /\ loaded = None

EnvIdle ==
    /\ op = "idle" /\ inp = None /\ state = None /\ regime = None /\ rec = None

RunIdle ==
    /\ rpc = "idle" /\ scen = None /\ spots = None /\ ivs = None /\ hvs = None
    /\ computed = <<>> /\ returned = None /\ mc = None

InitEnv ==
    /\ config \in Configs
    /\ EnvIdle
    /\ PathIdle
    /\ LogIdle
    /\ RunIdle

EvaluateState(spot, iv, hv) ==
    /\ op = "idle"
    /\ op' = "evaluate_state"
    /\ inp' = [spot |-> spot, iv |-> iv, hv |-> hv]
    /\ state' = evaluate_state(config, spot, iv, hv)
    /\ regime' = None
    /\ rec' = None
    /\ UNCHANGED <<config, pathVars, logVars, runVars>>

GetRegime(x, y) ==
    /\ op = "idle"
    /\ op' = "get_regime"
    /\ inp' = [x |-> x, y |-> y]
    /\ regime' = get_regime(x, y)
    /\ state' = None
    /\ rec' = None
    /\ UNCHANGED <<config, pathVars, logVars, runVars>>

ComputeStep(spot, iv, hv, timestamp) ==
    /\ op = "idle"
    /\ op' = "compute_step"
    /\ inp' = [spot |-> spot, iv |-> iv, hv |-> hv, timestamp |-> timestamp]
    /\ state' = evaluate_state(config, spot, iv, hv)
    /\ regime' = get_regime(state'.x, state'.y)
    /\ rec' = compute_step(config, spot, iv, hv, timestamp)
    /\ UNCHANGED <<config, pathVars, logVars, runVars>>

\* the caller takes the result; the envelope keeps nothing between calls
ReturnEnv ==
    /\ op # "idle"
    /\ op' = "idle" /\ inp' = None /\ state' = None /\ regime' = None /\ rec' = None
    /\ UNCHANGED <<config, pathVars, logVars, runVars>>

NextEnv ==
    \/ \E spot \in SpotsFor(config), iv \in IVs, hv \in HVs :
           EvaluateState(spot, iv, hv)
    \/ \E x \in RegimeXs, y \in RegimeYs : GetRegime(x, y)
    \/ \E spot \in SpotsFor(config), iv \in IVs, hv \in HVs, t \in Timestamps :
           ComputeStep(spot, iv, hv, t)
    \/ ReturnEnv

SpecEnv == InitEnv /\ [][NextEnv]_vars

---------------------------------------------------------------------------
(* dynamics.py: PathGenerator                                              *)

MaxSteps == 3

\* an optional argument: <<>> for None, <<v>> for the value v
Some(v) == <<v>>

\* Python truthiness of an optional int / float: None and 0 are false
TruthyInt(o) == o # <<>> /\ o[1] # 0

TruthyFloat(o) == o # <<>> /\ o[1] # Zero

\* random.normalvariate(0, sigma) = 0 + z * sigma, z the standard normal draw
Gauss(z, sigma) == DMul(z, sigma)

\* the standard normal draws the model takes
ZDraws == {D(-20, 0), Zero, One}

Generators ==
    {[start_spot |-> D(694, 0), atr |-> D(28, -1), steps |-> n] : n \in 0 .. MaxSteps}

\* path = []  (the seed element missing)
SeedPath_Empty(start) == <<>>

\* path = [self.start_spot] / [start_iv]
SeedPath(start) == <<start>>

\* spot += drift + noise, drift = (target - spot) * intensity
MeanRevertStep(spot, target, intensity, g) ==
    DAdd(spot, DAdd(DMul(DSub(target, spot), intensity), g))

\* spot += direction * atr * speed + noise
BreakoutStep(spot, direction, atr, speed, g) ==
    DAdd(spot, DAdd(DMul(DMul(direction, atr), speed), g))

\* half = self.steps // 2
Half(steps) == steps \div 2

\* the second loop running half times again
SecondCount_Half(steps) == Half(steps)

\* range(self.steps - half)
SecondCount(steps) == steps - Half(steps)

\* target = target_iv or start_iv
VolTarget(target_iv, start_iv) ==
    IF TruthyFloat(target_iv) THEN target_iv[1] ELSE start_iv

\* if shock_at and i == shock_at: iv *= 1.5
VolShock(iv, k, shock_at) ==
    IF TruthyInt(shock_at) /\ k = shock_at[1] THEN DMul(iv, D(15, -1)) ELSE iv

\* iv += drift + noise, drift = (target - iv) * 0.05
VolStep(iv, target, g) ==
    DAdd(iv, DAdd(DMul(DSub(target, iv), D(5, -2)), g))

\* max(0.01, iv)
VolFloor(iv) == DMax(D(1, -2), iv)

InitPath ==
    /\ pgen \in Generators
    /\ pc = "idle" /\ call = None /\ cur = None /\ pre = None
    /\ i = 0 /\ path = <<>> /\ draws = <<>>
    /\ config = MainConfig
    /\ EnvIdle
    /\ LogIdle
    /\ RunIdle

Begin(name, args, seed, start) ==
    /\ pc = "idle"
    /\ pc' = name
    /\ call' = args
    /\ path' = seed
    /\ cur' = start
    /\ pre' = None
    /\ i' = 0
    /\ draws' = <<>>
    /\ UNCHANGED <<pgen, envVars, logVars, runVars>>

CallMeanRevertPin(target, intensity, noise) ==
    Begin("mean_revert_pin",
          [name |-> "mean_revert_pin", target |-> target,
           intensity |-> intensity, noise |-> noise],
          SeedPath(pgen.start_spot), pgen.start_spot)

StepMeanRevertPin(z) ==
    /\ pc = "mean_revert_pin"
    /\ i < pgen.steps - 1
    /\ LET g == Gauss(z, DMul(pgen.atr, call.noise))
           spot == MeanRevertStep(cur, call.target, call.intensity, g)
       IN  /\ cur' = spot
           /\ path' = Append(path, spot)
           /\ draws' = Append(draws, g)
    /\ i' = i + 1
    /\ UNCHANGED <<pgen, pc, call, pre, envVars, logVars, runVars>>

CallBreakout(direction, speed, noise) ==
    Begin("breakout",
          [name |-> "breakout", direction |-> direction,
           speed |-> speed, noise |-> noise],
          SeedPath(pgen.start_spot), pgen.start_spot)

StepBreakout(z) ==
    /\ pc = "breakout"
    /\ i < pgen.steps - 1
    /\ LET g == Gauss(z, DMul(pgen.atr, call.noise))
           spot == BreakoutStep(cur, call.direction, pgen.atr, call.speed, g)
       IN  /\ cur' = spot
           /\ path' = Append(path, spot)
           /\ draws' = Append(draws, g)
    /\ i' = i + 1
    /\ UNCHANGED <<pgen, pc, call, pre, envVars, logVars, runVars>>

CallFalseBreakout(target_wall, breach_depth, recovery) ==
    Begin("false_breakout_1",
          [name |-> "false_breakout", target_wall |-> target_wall,
           breach_depth |-> breach_depth, recovery |-> recovery],
          <<>>, pgen.start_spot)

\* the first loop: towards the wall, intensity 0.1, noise atr * 0.1
StepTowardsWall(z) ==
    /\ pc = "false_breakout_1"
    /\ i < Half(pgen.steps)
    /\ LET g == Gauss(z, DMul(pgen.atr, D(1, -1)))
           spot == MeanRevertStep(cur, call.target_wall, D(1, -1), g)
       IN  /\ cur' = spot
           /\ path' = Append(path, spot)
           /\ draws' = Append(draws, g)
    /\ i' = i + 1
    /\ UNCHANGED <<pgen, pc, call, pre, envVars, logVars, runVars>>

\* between the loops: overshoot_target is computed (and never read)
Overshoot ==
    /\ pc = "false_breakout_1"
    /\ i >= Half(pgen.steps)
    /\ pc' = "false_breakout_2"
    /\ call' = [name |-> call.name, target_wall |-> call.target_wall,
                 breach_depth |-> call.breach_depth, recovery |-> call.recovery,
                 overshoot_target |->
                     DAdd(call.target_wall,
                          DMul(DSub(call.target_wall, pgen.start_spot), call.breach_depth))]
    /\ i' = 0
    /\ UNCHANGED <<pgen, cur, pre, path, draws, envVars, logVars, runVars>>

\* the second loop: back to start_spot, intensity recovery, noise atr * 0.2
StepRecover(z) ==
    /\ pc = "false_breakout_2"
    /\ i < SecondCount(pgen.steps)
    /\ LET g == Gauss(z, DMul(pgen.atr, D(2, -1)))
           spot == MeanRevertStep(cur, pgen.start_spot, call.recovery, g)
       IN  /\ cur' = spot
           /\ path' = Append(path, spot)
           /\ draws' = Append(draws, g)
    /\ i' = i + 1
    /\ UNCHANGED <<pgen, pc, call, pre, envVars, logVars, runVars>>

CallGenerateVolPath(start_iv, target_iv, shock_at) ==
    Begin("generate_vol_path",
          [name |-> "generate_vol_path", start_iv |-> start_iv,
           target_iv |-> target_iv, shock_at |-> shock_at,
           target |-> VolTarget(target_iv, start_iv)],
          SeedPath(start_iv), start_iv)

StepVolPath(z) ==
    /\ pc = "generate_vol_path"
    /\ i < pgen.steps - 1
    /\ LET g == Gauss(z, DMul(call.start_iv, D(5, -2)))
           shocked == VolShock(cur, i, call.shock_at)
           iv == VolStep(shocked, call.target, g)
       IN  /\ pre' = shocked
           /\ cur' = iv
           /\ path' = Append(path, VolFloor(iv))
           /\ draws' = Append(draws, g)
    /\ i' = i + 1
    /\ UNCHANGED <<pgen, pc, call, envVars, logVars, runVars>>

\* return path
ReturnPath ==
    /\ \/ pc \in {"mean_revert_pin", "breakout", "generate_vol_path"} /\ i >= pgen.steps - 1
       \/ pc = "false_breakout_2" /\ i >= SecondCount(pgen.steps)
    /\ pc' = "done"
    /\ UNCHANGED <<pgen, call, cur, pre, i, path, draws, envVars, logVars, runVars>>

\* the caller takes the list; the generator is ready for its next call
NextCall ==
    /\ pc = "done"
    /\ pc' = "idle" /\ call' = None /\ cur' = None /\ pre' = None
    /\ i' = 0 /\ path' = <<>> /\ draws' = <<>>
    /\ UNCHANGED <<pgen, envVars, logVars, runVars>>

StartIVs == {D(15, -2), D(2, -2), D(5, -3)}

TargetIVs == {<<>>, Some(D(2, -1)), Some(Zero)}

ShockAts == {<<>>} \cup {Some(k) : k \in 0 .. MaxSteps}

NextPath ==
    \/ CallMeanRevertPin(D(6925, -1), D(1, -1), D(2, -1))
    \/ \E z \in ZDraws : StepMeanRevertPin(z)
    \/ \E direction \in {One, D(-1, 0)} : CallBreakout(direction, D(5, -1), D(1, -1))
    \/ \E z \in ZDraws : StepBreakout(z)
    \/ CallFalseBreakout(D(700, 0), D(15, -1), D(8, -1))
    \/ \E z \in ZDraws : StepTowardsWall(z)
    \/ Overshoot
    \/ \E z \in ZDraws : StepRecover(z)
    \/ \E start_iv \in StartIVs, target_iv \in TargetIVs, shock_at \in ShockAts :
           CallGenerateVolPath(start_iv, target_iv, shock_at)
    \/ \E z \in ZDraws : StepVolPath(z)
    \/ ReturnPath
    \/ NextCall

SpecPath == InitPath /\ [][NextPath]_vars

---------------------------------------------------------------------------
(* io.py: TelemetryLogger.  A file is a sequence of characters; a JSON     *)
(* string's content is kept as one element between its two quotes.         *)

MaxLog == 2

Range(s) == {s[k] : k \in DOMAIN s}

DigitChars == <<"0", "1", "2", "3", "4", "5", "6", "7", "8", "9">>

DigitChar(n) == DigitChars[n + 1]

DigitVal(c) == (CHOOSE k \in 1 .. 10 : DigitChars[k] = c) - 1

RECURSIVE IntDigits(_)
IntDigits(n) ==
    IF n < 10 THEN <<DigitChar(n)>>
    ELSE IntDigits(n \div 10) \o <<DigitChar(n % 10)>>

RECURSIVE Zeros(_)
Zeros(n) == IF n <= 0 THEN <<>> ELSE <<"0">> \o Zeros(n - 1)

\* json.dumps of an int
EncInt(n) == IF n < 0 THEN <<"-">> \o IntDigits(-n) ELSE IntDigits(n)

\* json.dumps of a float: float.__repr__, the shortest decimal that reads
\* back as the same float, in positional notation (1e-4 <= |a| < 1e16 or 0)
EncFloat(a) ==
    LET ds == IntDigits(IAbs(a.m))
        n  == -a.e
        sg == IF a.m < 0 THEN <<"-">> ELSE <<>>
    IN  IF a.e >= 0 THEN sg \o ds \o Zeros(a.e) \o <<".", "0">>
        ELSE IF Len(ds) > n
             THEN sg \o SubSeq(ds, 1, Len(ds) - n) \o <<".">>
                     \o SubSeq(ds, Len(ds) - n + 1, Len(ds))
             ELSE sg \o <<"0", ".">> \o Zeros(n - Len(ds)) \o ds

EncStr(str) == <<"\"", str, "\"">>

RECURSIVE EncItems(_)
EncItems(l) ==
    IF l = <<>> THEN <<>>
    ELSE IF Len(l) = 1 THEN EncStr(l[1])
    ELSE EncStr(l[1]) \o <<",", " ">> \o EncItems(Tail(l))

EncList(l) == <<"[">> \o EncItems(l) \o <<"]">>

\* the keys of a record, in the order compute_step inserts them
Keys == <<"timestamp", "spot", "iv", "hv", "x", "y", "z", "regime", "flags">>

EncValue(k, v) ==
    IF k = "timestamp" THEN EncInt(v)
    ELSE IF k = "regime" THEN EncStr(v)
    ELSE IF k = "flags" THEN EncList(v)
    ELSE EncFloat(v)

RECURSIVE EncMembers(_, _)
EncMembers(entry, k) ==
    IF k > Len(Keys) THEN <<>>
    ELSE (IF k > 1 THEN <<",", " ">> ELSE <<>>)
         \o EncStr(Keys[k]) \o <<":", " ">> \o EncValue(Keys[k], entry[Keys[k]])
         \o EncMembers(entry, k + 1)

\* json.dumps(entry)
json_dumps(entry) == <<"{">> \o EncMembers(entry, 1) \o <<"}">>

\* f.write(json.dumps(entry)) without the line break
WriteEntry_NoNewline(entry) == json_dumps(entry)

\* f.write(json.dumps(entry) + '\n')
WriteEntry(entry) == json_dumps(entry) \o <<"\n">>

\* save_log: the file opened with 'w' holds what this call writes
RECURSIVE save_log(_)
save_log(data) ==
    IF data = <<>> THEN <<>> ELSE WriteEntry(Head(data)) \o save_log(Tail(data))

Whitespace == {" ", "\n", "\t", "\r"}

NumChars == Range(DigitChars) \cup {"-", "."}

\* for line in f: the lines of the file, each with its line break (the last
\* one without, when the file does not end with one)
SplitLines(f) ==
    LET breaks == {k \in DOMAIN f : f[k] = "\n"}
        starts == {k \in DOMAIN f : k = 1 \/ (k - 1) \in breaks}
        StartOf(j) == CHOOSE b \in starts : Cardinality({u \in starts : u < b}) = j - 1
        EndOf(b) == IF \E k \in breaks : k >= b
                    THEN CHOOSE k \in breaks : k >= b /\ \A u \in breaks : u >= b => k <= u
                    ELSE Len(f)
    IN  [j \in 1 .. Cardinality(starts) |-> SubSeq(f, StartOf(j), EndOf(StartOf(j)))]

\* line.strip()
RECURSIVE Strip(_)
Strip(line) ==
    IF line = <<>> THEN line
    ELSE IF Head(line) \in Whitespace THEN Strip(Tail(line))
    ELSE IF line[Len(line)] \in Whitespace THEN Strip(SubSeq(line, 1, Len(line) - 1))
    ELSE line

RECURSIVE SkipWs(_, _)
SkipWs(t, p) == IF p <= Len(t) /\ t[p] \in Whitespace THEN SkipWs(t, p + 1) ELSE p

RECURSIVE NumEnd(_, _)
NumEnd(t, p) == IF p <= Len(t) /\ t[p] \in NumChars THEN NumEnd(t, p + 1) ELSE p

RECURSIVE DigitsToInt(_)
DigitsToInt(ds) ==
    IF ds = <<>> THEN 0
    ELSE 10 * DigitsToInt(SubSeq(ds, 1, Len(ds) - 1)) + DigitVal(ds[Len(ds)])

\* the digits ds * 10^e with the trailing zeros moved into the exponent
RECURSIVE DigitsToFloat(_, _)
DigitsToFloat(ds, e) ==
    IF ds # <<>> /\ ds[Len(ds)] = "0" THEN DigitsToFloat(SubSeq(ds, 1, Len(ds) - 1), e + 1)
    ELSE D(DigitsToInt(ds), e)

\* the value of a JSON number: an int without a '.', a float with one
NumValue(cs) ==
    LET neg  == cs[1] = "-"
        body == IF neg THEN Tail(cs) ELSE cs
        dots == {k \in DOMAIN body : body[k] = "."}
    IN  IF dots = {}
        THEN (IF neg THEN -DigitsToInt(body) ELSE DigitsToInt(body))
        ELSE LET k == CHOOSE d \in dots : TRUE
                 ip == SubSeq(body, 1, k - 1)
                 fp == SubSeq(body, k + 1, Len(body))
                 a  == DigitsToFloat(ip \o fp, -Len(fp))
             IN  IF neg THEN DNeg(a) ELSE a

EmptyObject == [k \in {} |-> 0]

RECURSIVE ParseValue(_, _), ParseItems(_, _, _), ParseMembers(_, _, _)
ParseValue(t, p) ==
    IF t[p] = "\"" THEN [val |-> t[p + 1], pos |-> p + 3]
    ELSE IF t[p] = "[" THEN ParseItems(t, SkipWs(t, p + 1), <<>>)
    ELSE IF t[p] = "{" THEN ParseMembers(t, SkipWs(t, p + 1), EmptyObject)
    ELSE [val |-> NumValue(SubSeq(t, p, NumEnd(t, p) - 1)), pos |-> NumEnd(t, p)]

ParseItems(t, p, acc) ==
    IF t[p] = "]" THEN [val |-> acc, pos |-> p + 1]
    ELSE IF t[p] = "," THEN ParseItems(t, SkipWs(t, p + 1), acc)
    ELSE LET r == ParseValue(t, p)
         IN  ParseItems(t, SkipWs(t, r.pos), Append(acc, r.val))

ParseMembers(t, p, acc) ==
    IF t[p] = "}" THEN [val |-> acc, pos |-> p + 1]
    ELSE IF t[p] = "," THEN ParseMembers(t, SkipWs(t, p + 1), acc)
    ELSE LET colon == SkipWs(t, p + 3)
             r == ParseValue(t, SkipWs(t, colon + 1))
         IN  ParseMembers(t, SkipWs(t, r.pos), (t[p + 1] :> r.val) @@ acc)

\* json.loads(line): one value, then nothing but whitespace ("Extra data" otherwise)
json_loads(line) ==
    LET r == ParseValue(line, SkipWs(line, 1))
    IN  IF SkipWs(line, r.pos) = Len(line) + 1
        THEN [ok |-> TRUE, val |-> r.val]
        ELSE [ok |-> FALSE, val |-> EmptyObject]

RECURSIVE LoadLines(_, _)
LoadLines(lines, data) ==
    IF lines = <<>> THEN [ok |-> TRUE, data |-> data]
    ELSE IF Strip(Head(lines)) = <<>> THEN LoadLines(Tail(lines), data)
    ELSE LET r == json_loads(Head(lines))
         IN  IF r.ok THEN LoadLines(Tail(lines), Append(data, r.val))
             ELSE [ok |-> FALSE, data |-> <<>>]     \* json.JSONDecodeError is raised

\* load_log: ok and the list returned, or not ok when json.loads raises
load_log(f) == LoadLines(SplitLines(f), <<>>)

\* the configs and inputs the logged records are computed from
LogConfigs ==
    {MainConfig,
     Cfg(Zero, MainConfig.flip, MainConfig.put_wall, MainConfig.call_wall),
     Cfg(D(28, -1), Zero, D(-10, 0), D(10, 0))}

LogSpots(cfg) ==
    IF cfg.flip = Zero THEN {Zero, D(-525, -2), D(-20, 0)}
    ELSE {D(6925, -1), D(693059, -3), D(6940, -1), D(750, 0)}

LogVols == {<<D(15, -2), D(12, -2)>>, <<D(31, -2), D(5, -10)>>}

InitLog ==
    /\ config \in LogConfigs
    /\ EnvIdle
    /\ PathIdle
    /\ LogIdle
    /\ RunIdle

\* the driver's log_data.append(step_data)
AppendStep(spot, iv, hv) ==
    /\ written = None
    /\ Len(log_data) < MaxLog
    /\ log_data' = Append(log_data, compute_step(config, spot, iv, hv, Len(log_data)))
    /\ UNCHANGED <<written, file, loaded, envVars, pathVars, runVars>>

SaveLog ==
    /\ written = None
    /\ written' = Some(log_data)
    /\ file' = Some(save_log(log_data))
    /\ UNCHANGED <<log_data, loaded, envVars, pathVars, runVars>>

LoadLog ==
    /\ file # None
    /\ loaded = None
    /\ loaded' = Some(load_log(file[1]))
    /\ UNCHANGED <<log_data, written, file, envVars, pathVars, runVars>>

NextLog ==
    \/ \E spot \in LogSpots(config), v \in LogVols : AppendStep(spot, v[1], v[2])
    \/ SaveLog
    \/ LoadLog

SpecLog == InitLog /\ [][NextLog]_vars

---------------------------------------------------------------------------
(* scenario_runner.py: ScenarioRunner.  run_scenario drives the generator  *)
(* calls above, then compute_step once per loop iteration, then save_log.  *)

MaxRunSteps == 2

MaxRuns == 2

PathTypes == {"mean_revert", "breakout", "false_breakout", "zigzag"}

StepCounts == 0 .. MaxRunSteps

\* main()'s config; the pivot at the start spot 694 between tighter walls;
\* the pivot 10 below the start spot
RunConfigs ==
    {MainConfig,
     Cfg(D(28, -1), D(694, 0), D(685, 0), D(700, 0)),
     Cfg(D(28, -1), D(684, 0), D(680, 0), D(700, 0))}

\* one element short
FixedHvs_Short(steps) == [n \in 1 .. steps - 1 |-> D(12, -2)]

\* hvs = [0.12] * steps
FixedHvs(steps) == [n \in 1 .. steps |-> D(12, -2)]

\* spots[i], ivs[i], hvs[i] with 0 <= i: all three are inside the lists
InRange(n) ==
    /\ n + 1 \in DOMAIN spots
    /\ n + 1 \in DOMAIN ivs
    /\ n + 1 \in DOMAIN hvs

InitRun ==
    /\ config \in RunConfigs
    /\ EnvIdle
    /\ PathIdle
    /\ LogIdle
    /\ RunIdle

\* gen = PathGenerator(start_spot=694.0, atr=self.config.atr, steps=steps)
Enter(path_type, steps) ==
    /\ rpc = "idle"
    /\ pc = "idle"
    /\ rpc' = "spots"
    /\ scen' = [path_type |-> path_type, steps |-> steps, i |-> 0]
    /\ pgen' = [start_spot |-> D(694, 0), atr |-> config.atr, steps |-> steps]
    /\ spots' = None /\ ivs' = None /\ hvs' = None
    /\ computed' = <<>>
    /\ returned' = None
    /\ log_data' = <<>> /\ written' = None /\ file' = None /\ loaded' = None
    /\ UNCHANGED <<pc, call, cur, pre, i, path, draws, envVars>>

RunScenario(path_type, steps) ==
    /\ mc = None
    /\ Enter(path_type, steps)
    /\ UNCHANGED mc

\* the if / elif / else over path_type: the generator call it selects
GenerateSpots ==
    /\ rpc = "spots"
    /\ \/ /\ scen.path_type = "mean_revert"
          /\ CallMeanRevertPin(config.flip, D(1, -1), D(2, -1))
       \/ /\ scen.path_type = "breakout"
          /\ CallBreakout(One, D(5, -1), D(1, -1))
       \/ /\ scen.path_type = "false_breakout"
          /\ CallFalseBreakout(config.call_wall, D(15, -1), D(8, -1))
       \/ /\ scen.path_type \notin {"mean_revert", "breakout", "false_breakout"}
          /\ CallMeanRevertPin(config.flip, D(1, -1), D(2, -1))

\* spots = <the list the generator returned>
TakeSpots ==
    /\ rpc = "spots"
    /\ pc = "done"
    /\ spots' = path
    /\ rpc' = "ivs"
    /\ pc' = "idle" /\ call' = None /\ cur' = None /\ pre' = None
    /\ i' = 0 /\ path' = <<>> /\ draws' = <<>>
    /\ UNCHANGED <<pgen, scen, ivs, hvs, computed, returned, mc, envVars, logVars>>

\* ivs = gen.generate_vol_path(start_iv=0.15)
GenerateIvs ==
    /\ rpc = "ivs"
    /\ CallGenerateVolPath(D(15, -2), None, None)

\* ivs = <the list returned>; hvs = [0.12] * steps; log_data = []
TakeIvs ==
    /\ rpc = "ivs"
    /\ pc = "done"
    /\ ivs' = path
    /\ hvs' = FixedHvs(scen.steps)
    /\ log_data' = <<>>
    /\ rpc' = "loop"
    /\ pc' = "idle" /\ call' = None /\ cur' = None /\ pre' = None
    /\ i' = 0 /\ path' = <<>> /\ draws' = <<>>
    /\ UNCHANGED <<pgen, scen, spots, computed, returned, mc, envVars,
                   written, file, loaded>>

\* one iteration of  for i in range(steps):  an index outside a list raises
ComputeLoop ==
    /\ rpc = "loop"
    /\ scen.i < scen.steps
    /\ IF InRange(scen.i)
       THEN /\ computed' = Append(computed, scen.i)
            /\ log_data' = Append(log_data,
                   compute_step(config, spots[scen.i + 1], ivs[scen.i + 1],
                                hvs[scen.i + 1], scen.i))
            /\ scen' = [scen EXCEPT !.i = @ + 1]
            /\ rpc' = rpc
       ELSE /\ rpc' = "IndexError"
            /\ UNCHANGED <<computed, log_data, scen>>
    /\ UNCHANGED <<spots, ivs, hvs, returned, mc, written, file, loaded,
                   envVars, pathVars>>

\* TelemetryLogger.save_log(log_path, log_data)
SaveRun ==
    /\ rpc = "loop"
    /\ scen.i >= scen.steps
    /\ written' = Some(log_data)
    /\ file' = Some(save_log(log_data))
    /\ rpc' = "saved"
    /\ UNCHANGED <<log_data, loaded, scen, spots, ivs, hvs, computed, returned, mc,
                   envVars, pathVars>>

\* return log_data
ReturnRun ==
    /\ rpc = "saved"
    /\ returned' = Some(log_data)
    /\ rpc' = "done"
    /\ UNCHANGED <<scen, spots, ivs, hvs, computed, mc, envVars, pathVars, logVars>>

\* the steps of a run_scenario call and of the generator calls inside it
RunSteps ==
    \/ GenerateSpots
    \/ \E z \in ZDraws : StepMeanRevertPin(z)
    \/ \E z \in ZDraws : StepBreakout(z)
    \/ \E z \in ZDraws : StepTowardsWall(z)
    \/ Overshoot
    \/ \E z \in ZDraws : StepRecover(z)
    \/ ReturnPath
    \/ TakeSpots
    \/ GenerateIvs
    \/ \E z \in ZDraws : StepVolPath(z)
    \/ TakeIvs
    \/ ComputeLoop
    \/ SaveRun
    \/ ReturnRun

NextRun ==
    \/ \E path_type \in PathTypes, steps \in StepCounts : RunScenario(path_type, steps)
    \/ RunSteps

SpecRun == InitRun /\ [][NextRun]_vars

\* max(step['y'] for step in log_data), log_data not empty
RECURSIVE MaxLoad(_)
MaxLoad(data) ==
    IF Len(data) = 1 THEN data[1].y
    ELSE DMax(data[1].y, MaxLoad(Tail(data)))

\* any(len(step['flags']) > 0 for step in log_data)
AnyFlagged(data) == \E n \in DOMAIN data : Len(data[n].flags) > 0

\* sum(1 for r in results if r['breached'])
BreachCount(results) == Cardinality({n \in DOMAIN results : results[n].breached})

RunCounts == 0 .. MaxRuns

\* run_monte_carlo(name, path_type, n_runs, steps): results = []
RunMonteCarlo(path_type, n_runs, steps) ==
    /\ mc = None
    /\ rpc = "idle"
    /\ scen = None
    /\ mc' = [pc |-> "loop", path_type |-> path_type, n_runs |-> n_runs,
              steps |-> steps, i |-> 0, results |-> <<>>, breach_count |-> None]
    /\ UNCHANGED <<rpc, scen, spots, ivs, hvs, computed, returned,
                   envVars, pathVars, logVars>>

\* for i in range(n_runs): log_data = self.run_scenario(f"{name}_{i}", path_type, steps)
McRunScenario ==
    /\ mc # None
    /\ mc.pc = "loop"
    /\ mc.i < mc.n_runs
    /\ Enter(mc.path_type, mc.steps)
    /\ UNCHANGED mc

\* max_load, breached, results.append(...); max() of an empty log raises
McCollect ==
    /\ mc # None
    /\ mc.pc = "loop"
    /\ rpc = "done"
    /\ IF returned[1] = <<>>
       THEN /\ mc' = [mc EXCEPT !.pc = "ValueError"]
            /\ rpc' = rpc
       ELSE /\ mc' = [mc EXCEPT
                        !.results = Append(@, [run |-> mc.i,
                                               max_load |-> MaxLoad(returned[1]),
                                               breached |-> AnyFlagged(returned[1])]),
                        !.i = @ + 1]
            /\ rpc' = "idle"
    /\ UNCHANGED <<scen, spots, ivs, hvs, computed, returned,
                   envVars, pathVars, logVars>>

\* the summary: breach_count / n_runs divides by zero when n_runs = 0
McSummary ==
    /\ mc # None
    /\ mc.pc = "loop"
    /\ mc.i >= mc.n_runs
    /\ rpc = "idle"
    /\ mc' = IF mc.n_runs = 0
             THEN [mc EXCEPT !.pc = "ZeroDivisionError",
                             !.breach_count = Some(BreachCount(mc.results))]
             ELSE [mc EXCEPT !.pc = "done",
                             !.breach_count = Some(BreachCount(mc.results))]
    /\ UNCHANGED <<rpc, scen, spots, ivs, hvs, computed, returned,
                   envVars, pathVars, logVars>>

NextMC ==
    \/ \E path_type \in PathTypes, n_runs \in RunCounts, steps \in StepCounts :
           RunMonteCarlo(path_type, n_runs, steps)
    \/ McRunScenario
    \/ RunSteps
    \/ McCollect
    \/ McSummary

SpecMC == InitRun /\ [][NextMC]_vars

---------------------------------------------------------------------------
(* Properties of the envelope and of compute_step (SpecEnv)                *)

\* spot at the pivot, a positive volatility unit, 0 < hv and iv / hv <= 2.5
AtPivot ==
    /\ op = "compute_step"
    /\ DGt(config.atr, Zero)
    /\ inp.spot = config.flip
    /\ DGt(inp.hv, Zero)
    /\ DLe(inp.iv, DMul(RuptureY, inp.hv))

\* the scenario of main()'s config with spot=692.5, iv=0.15, hv=0.12
PivotScenario ==
    /\ op = "compute_step"
    /\ config = MainConfig
    /\ inp.spot = D(6925, -1) /\ inp.iv = D(15, -2) /\ inp.hv = D(12, -2)

\* C1 as stated: at the pivot compute_step returns x = 0.0, regime TAXI and
\* an empty flags list; the scenario gives x=0.0, y=1.25, TAXI, [].
C1_Original ==
    /\ AtPivot => rec.x = Zero /\ rec.regime = "TAXI" /\ rec.flags = <<>>
    /\ PivotScenario => rec.y = D(125, -2)

\* C1 (amended): at the pivot compute_step returns x = 0.0, regime TAXI and
\* the flag STALL (x = 0 < 0.2), never OVERSPEED: flags are [STALL] when the
\* pivot lies within the walls and [BREACH, STALL] when it does not; the
\* scenario gives x=0.0, y=1.25, TAXI, [STALL].
C1_AtPivot ==
    /\ AtPivot =>
          /\ rec.x = Zero
          /\ rec.regime = "TAXI"
          /\ rec.flags =
                IF DGt(config.flip, config.call_wall) \/ DLt(config.flip, config.put_wall)
                THEN <<"BREACH", "STALL">> ELSE <<"STALL">>
    /\ PivotScenario => rec.y = D(125, -2) /\ rec.flags = <<"STALL">>

C1_Witness ==
    /\ PivotScenario
    /\ rec.x = Zero /\ rec.regime = "TAXI" /\ rec.flags = <<"STALL">>

\* C2: get_regime is total and its clauses are tried in order, the first
\* match winning: RUPTURE iff y > 2.5 or x > 4.5; TAXI iff not that and
\* x < 0.3; MANEUVER iff neither and (y > 1.5 or x > 2.5); CRUISE iff none.
C2_Cascade ==
    op = "get_regime" =>
        LET rup  == QGt(inp.y, D(25, -1)) \/ QGt(inp.x, D(45, -1))
            taxi == QLt(inp.x, D(3, -1))
            man  == QGt(inp.y, D(15, -1)) \/ QGt(inp.x, D(25, -1))
        IN  /\ regime \in {"RUPTURE", "TAXI", "MANEUVER", "CRUISE"}
            /\ regime = "RUPTURE" <=> rup
            /\ regime = "TAXI" <=> ~rup /\ taxi
            /\ regime = "MANEUVER" <=> ~rup /\ ~taxi /\ man
            /\ regime = "CRUISE" <=> ~rup /\ ~taxi /\ ~man

\* x < 0.3 with 1.5 < y <= 2.5 classified TAXI although the MANEUVER clause matches too
C2_Witness ==
    /\ op = "get_regime"
    /\ inp.x = Q(D(2, -1)) /\ inp.y = Q(D(25, -1))
    /\ regime = "TAXI"

FlagLists ==
    {<<>>, <<"BREACH">>, <<"OVERSPEED">>, <<"STALL">>,
     <<"BREACH", "OVERSPEED">>, <<"BREACH", "STALL">>, <<"OVERSPEED", "STALL">>,
     <<"BREACH", "OVERSPEED", "STALL">>}

\* C6: flags holds BREACH iff is_breached, OVERSPEED iff is_overspeed, STALL
\* iff is_stall, each at most once and in the order BREACH, OVERSPEED, STALL.
C6_Flags ==
    op = "compute_step" =>
        /\ "BREACH" \in Range(rec.flags) <=> state.is_breached
        /\ "OVERSPEED" \in Range(rec.flags) <=> state.is_overspeed
        /\ "STALL" \in Range(rec.flags) <=> state.is_stall
        /\ rec.flags \in FlagLists

C6_Witness ==
    /\ op = "compute_step"
    /\ state.is_breached /\ state.is_stall
    /\ rec.flags = <<"BREACH", "STALL">>

\* C7: is_breached iff spot > upper_wall or spot < lower_wall (a spot on a
\* wall of a config with lower_wall <= upper_wall is not breached); with a
\* positive volatility unit a spot above the upper wall with x > 4.5 gives
\* flags [BREACH, OVERSPEED] and RUPTURE.
C7_Breach ==
    /\ op \in {"evaluate_state", "compute_step"} =>
          /\ state.is_breached <=>
                (DLt(config.call_wall, inp.spot) \/ DLt(inp.spot, config.put_wall))
          /\ (/\ DLe(config.put_wall, config.call_wall)
              /\ inp.spot \in {config.call_wall, config.put_wall}) => ~state.is_breached
    /\ (/\ op = "compute_step"
        /\ DGt(config.atr, Zero)
        /\ DGt(inp.spot, config.call_wall)
        /\ QGt(state.x, D(45, -1)))
       => rec.flags = <<"BREACH", "OVERSPEED">> /\ rec.regime = "RUPTURE"

C7_Witness ==
    /\ op = "compute_step"
    /\ config = MainConfig /\ inp.spot = D(750, 0)
    /\ rec.x = D(20536, -3)
    /\ rec.flags = <<"BREACH", "OVERSPEED">> /\ rec.regime = "RUPTURE"

\* the numerators and denominators of the three coordinates, from the arguments
NumX == DAbs(DSub(inp.spot, config.flip))

SelectedWall == IF DGe(inp.spot, config.flip) THEN config.call_wall ELSE config.put_wall

NumZ == DAbs(DSub(SelectedWall, inp.spot))

DenZ == DAbs(DSub(SelectedWall, config.flip))

Evaluated == op \in {"evaluate_state", "compute_step"}

GuardedQuotient(q, num, den) ==
    /\ DGt(q.d, Zero)
    /\ (DLe(den, Zero) \/ DGe(den, Eps)) => QEq(q, QDiv(num, DMax(den, Eps)))
    /\ (DGt(den, Zero) /\ DLt(den, Eps)) => QEq(q, QDiv(num, den))

---------------------------------------------------------------------------
(* Properties of the path generators (SpecPath)                            *)

\* C3 as stated: every element generate_vol_path emits, the first included,
\* is at least 0.01, for every start_value and every noise draw.
C3_Floor ==
    (pc = "done" /\ call.name = "generate_vol_path" /\ pgen.steps >= 1) =>
        \A k \in DOMAIN path : DGe(path[k], D(1, -2))

PricePath ==
    /\ pc = "done"
    /\ call.name \in {"mean_revert_pin", "breakout", "false_breakout"}
    /\ pgen.steps >= 1

\* C4 as stated: the sequence returned by mean_revert_pin, breakout and
\* false_breakout starts with start_value, whatever the noise.
C4_Original == PricePath => path[1] = pgen.start_spot

\* C4 (amended): mean_revert_pin and breakout return a sequence whose first
\* element is start_value exactly; false_breakout does not seed its sequence:
\* its first element is start_value advanced by one step of the recurrence,
\* start + 0.1 * (target_wall - start) + noise when step_count >= 2 and
\* start + noise when step_count = 1.
C4_Seed ==
    PricePath =>
        /\ Len(path) >= 1
        /\ path[1] =
              IF call.name \in {"mean_revert_pin", "breakout"} THEN pgen.start_spot
              ELSE IF pgen.steps >= 2
                   THEN DAdd(pgen.start_spot,
                             DAdd(DMul(DSub(call.target_wall, pgen.start_spot), D(1, -1)),
                                  draws[1]))
                   ELSE DAdd(pgen.start_spot, draws[1])

\* a mean_revert_pin path whose later elements moved and whose first did not
C4_Witness ==
    /\ pc = "done" /\ call.name = "mean_revert_pin"
    /\ pgen.steps = 3
    /\ draws[1] # Zero
    /\ path[1] = pgen.start_spot /\ path[2] # pgen.start_spot

\* C5: with step_count >= 1 each generator returns exactly step_count
\* elements; false_breakout's first loop contributes step_count // 2 of them
\* and its second loop the other step_count - step_count // 2.
C5_Length ==
    /\ (pc = "done" /\ pgen.steps >= 1) => Len(path) = pgen.steps
    /\ (pc = "false_breakout_2" /\ i = 0 /\ pgen.steps >= 1) =>
          Len(path) = pgen.steps \div 2
    /\ (pc = "done" /\ call.name = "false_breakout" /\ pgen.steps >= 1) =>
          i = pgen.steps - pgen.steps \div 2

\* an odd step count split 1 + 2 by false_breakout
C5_Witness ==
    /\ pc = "done" /\ call.name = "false_breakout"
    /\ pgen.steps = 3 /\ i = 2 /\ Len(path) = 3

\* C9 as stated: in the iteration whose index is shock_index (0 included)
\* the carried value is multiplied by 1.5 before the drift, and in no other;
\* without a shock_index it is never multiplied.
C9_Shock ==
    [][(pc = "generate_vol_path" /\ pc' = "generate_vol_path" /\ i' = i + 1) =>
          pre' = IF call.shock_at = Some(i) THEN DMul(cur, D(15, -1)) ELSE cur]_vars

---------------------------------------------------------------------------
(* Properties of the logger (SpecLog)                                      *)

\* C8: load_log after save_log returns the records that were saved: as many,
\* in the same order, each equal field for field; the file holds one line
\* per record.
C8_RoundTrip ==
    loaded # None =>
        /\ loaded[1].ok
        /\ loaded[1].data = written[1]
        /\ Len(SplitLines(file[1])) = Len(written[1])

\* two records, the first with an empty flags list, the second with a
\* negative spot, read back
C8_Witness ==
    /\ loaded # None
    /\ Len(written[1]) = 2
    /\ written[1][1].flags = <<>>
    /\ written[1][2].spot = D(-525, -2)
    /\ Len(loaded[1].data) = 2
    /\ loaded[1].data[2].spot = D(-525, -2)

---------------------------------------------------------------------------
(* Properties of run_scenario (SpecRun)                                    *)

\* the indices 0 .. n-1 in increasing order
UpTo(n) == [m \in 1 .. n |-> m - 1]

\* C11: for every path_type (the three names, or any other name, which takes
\* the mean_revert branch) and steps >= 1, run_scenario calls compute_step
\* once per index 0 .. steps-1 in increasing order, no index it uses lies
\* past the end of the price, IV or HV list, and it returns exactly steps
\* records, the record at position i with timestamp i.
C11_OncePerIndex ==
    (scen # None /\ scen.steps >= 1) =>
        /\ rpc # "IndexError"
        /\ (rpc = "loop" /\ scen.i < scen.steps) => InRange(scen.i)
        /\ rpc \in {"loop", "saved", "done"} =>
              /\ computed = UpTo(scen.i)
              /\ scen.i <= scen.steps
        /\ rpc = "done" =>
              /\ computed = UpTo(scen.steps)
              /\ Len(returned[1]) = scen.steps
              /\ \A n \in 1 .. scen.steps : returned[1][n].timestamp = n - 1

\* a two-step run of an unrecognised path_type has returned its two records,
\* computed from a mean_revert_pin price path
C11_Witness ==
    /\ rpc = "done"
    /\ scen.path_type = "zigzag"
    /\ scen.steps = 2
    /\ Len(returned[1]) = 2
    /\ Len(spots) = 2
    /\ spots[1] = D(694, 0)
    /\ computed = <<0, 1>>

---------------------------------------------------------------------------
(* Properties of run_monte_carlo (SpecMC)                                  *)

\* some record of the run carries the BREACH flag
HasBreach(data) ==
    \E n \in DOMAIN data : \E f \in DOMAIN data[n].flags : data[n].flags[f] = "BREACH"

\* the run just collected: its records and the result appended for it
Collected ==
    /\ mc # None
    /\ mc.pc = "loop"
    /\ rpc = "idle"
    /\ returned # None
    /\ mc.results # <<>>

\* C12 as stated: a run is marked breached exactly when at least one of its
\* records carries BREACH; a run whose records carry only OVERSPEED and/or
\* STALL is reported with breached = false (and is not counted in the
\* Breach Rate, which counts the results with breached = true).
C12_BreachOnly ==
    Collected => (mc.results[Len(mc.results)].breached <=> HasBreach(returned[1]))

---------------------------------------------------------------------------
(* Flags, regime and stored coordinates of a record (SpecEnv)              *)

\* C13: in every record of compute_step, OVERSPEED and STALL never occur
\* together; a record with STALL has regime TAXI or RUPTURE; a record with
\* OVERSPEED has regime MANEUVER or RUPTURE; a record with regime CRUISE has
\* neither OVERSPEED nor STALL.
C13_FlagsRegime ==
    op = "compute_step" =>
        LET f == Range(rec.flags)
        IN  /\ ~({"OVERSPEED", "STALL"} \subseteq f)
            /\ "STALL" \in f => rec.regime \in {"TAXI", "RUPTURE"}
            /\ "OVERSPEED" \in f => rec.regime \in {"MANEUVER", "RUPTURE"}
            /\ rec.regime = "CRUISE" => f \cap {"OVERSPEED", "STALL"} = {}

\* a stalled record classified RUPTURE by its load factor
C13_Witness ==
    /\ op = "compute_step"
    /\ rec.flags = <<"STALL">>
    /\ rec.regime = "RUPTURE"
    /\ QGt(state.y, D(25, -1))

\* C14 as stated: STALL is in flags iff the stored x < 0.2, OVERSPEED iff the
\* stored x > 3.0, and the stored regime is get_regime of the stored x and y.
C14_Original ==
    op = "compute_step" =>
        /\ "STALL" \in Range(rec.flags) <=> DLt(rec.x, D(2, -1))
        /\ "OVERSPEED" \in Range(rec.flags) <=> DGt(rec.x, D(30, -1))
        /\ rec.regime = get_regime(Q(rec.x), Q(rec.y))

\* C14 (amended): flags and regime are decided by the unrounded coordinates,
\* and the stored ones follow them up to the rounding: a stored x < 0.2 has
\* STALL and STALL has a stored x <= 0.2; a stored x > 3.0 has OVERSPEED and
\* OVERSPEED has a stored x >= 3.0; the stored regime is get_regime of the
\* stored x and y unless the stored x is a threshold of the cascade (0.3,
\* 2.5, 4.5) or the stored y is one (1.5, 2.5).
C14_Stored ==
    op = "compute_step" =>
        /\ DLt(rec.x, D(2, -1)) => "STALL" \in Range(rec.flags)
        /\ "STALL" \in Range(rec.flags) => DLe(rec.x, D(2, -1))
        /\ DGt(rec.x, D(30, -1)) => "OVERSPEED" \in Range(rec.flags)
        /\ "OVERSPEED" \in Range(rec.flags) => DGe(rec.x, D(30, -1))
        /\ (/\ rec.x \notin {D(3, -1), D(25, -1), D(45, -1)}
            /\ rec.y \notin {D(15, -1), D(25, -1)})
           => rec.regime = get_regime(Q(rec.x), Q(rec.y))

\* an airspeed just under 0.2: STALL is flagged and the stored x is 0.2
C14_Witness ==
    /\ op = "compute_step"
    /\ "STALL" \in Range(rec.flags)
    /\ QLt(state.x, D(2, -1))
    /\ rec.x = D(2, -1)

===========================================================================
